---- MODULE Spec2Model ----
(***************************************************************************)
(* DayPlannerV2: the schedule recalculation (services/scheduler.ts), the   *)
(* per-task pomodoro timer state machine and the task-sequence handlers of *)
(* the App component.                                                      *)
(*                                                                         *)
(* Times are epoch milliseconds counted from local midnight of day 0.      *)
(* Durations are whole minutes, timer remainders are seconds.  Clock       *)
(* readings are multiples of 1000 ms so that (now - lastStartedAt) / 1000  *)
(* stays an integer.                                                       *)
(***************************************************************************)
EXTENDS Integers, Sequences, FiniteSets, TLC

\* ------------------------------------------------------------------------
\* Encoding of JavaScript values
\* ------------------------------------------------------------------------

\* `undefined` for an optional number (planStartTime, currentTime,
\* lastStartedAt, queueStartTime, referenceDate).
Undefined == -1

\* `undefined` for an optional task id (activeTaskId).
NoId == 0

\* `undefined` (or the empty string) for anchoredStartTime; a set anchor
\* "HH:MM" is the pair <<HH, MM>>.
NoAnchor == <<>>

\* JavaScript truthiness of an optional number: undefined and 0 are falsy.
Truthy(x) == x # Undefined /\ x # 0

MsPerMin == 60000
MsPerHour == 60 * MsPerMin
MsPerDay == 24 * MsPerHour
MsPerSec == 1000
SecPerMin == 60

\* Math.ceil(a / b) for b > 0.
Ceil(a, b) == IF a % b = 0 THEN a \div b ELSE (a \div b) + 1

Max(a, b) == IF a >= b THEN a ELSE b

\* A wall-clock reading h:m:s of day 0, in ms.
At(h, m, s) == h * MsPerHour + m * MsPerMin + s * MsPerSec

\* ------------------------------------------------------------------------
\* Bounds of the model
\* ------------------------------------------------------------------------
MaxLen == 2

\* ------------------------------------------------------------------------
\* services/scheduler.ts : recalculateSchedule
\* ------------------------------------------------------------------------

\* task.anchoredStartTime.split(':').map(Number); new Date(referenceDate);
\* setHours(h, m, 0, 0); getTime().  referenceDate is a day number.
AnchorTs(anchoredStartTime, referenceDate) ==
    referenceDate * MsPerDay + anchoredStartTime[1] * MsPerHour
                             + anchoredStartTime[2] * MsPerMin

\* if (task.anchoredStartTime && referenceDate)
HasAnchor(task, referenceDate) ==
    task.anchoredStartTime # NoAnchor /\ referenceDate # Undefined

\* Mutant of OverrunMins: Math.floor in place of Math.ceil.
OverrunMinsFloor(currentTracker, anchorTs) == (currentTracker - anchorTs) \div MsPerMin

\* Math.ceil((currentTracker - anchorTs) / 60000)
OverrunMins(currentTracker, anchorTs) == Ceil(currentTracker - anchorTs, MsPerMin)

\* Mutant of CompressedDuration: the overrun is subtracted without the test
\* that the duration exceeds it.
CompressedDurationUnclamped(prevDuration, overrunMins) == prevDuration - overrunMins

\* Mutant of CompressedDuration: the squash branch leaves the previous task
\* its duration.
CompressedDurationKept(prevDuration, overrunMins) ==
    IF prevDuration > overrunMins THEN prevDuration - overrunMins ELSE prevDuration

\* The duration left to the previous task by the compression branch.
CompressedDuration(prevDuration, overrunMins) ==
    IF prevDuration > overrunMins THEN prevDuration - overrunMins ELSE 0

\* Mutant of CompressedTracker: the squash branch puts the tracker on the
\* anchor.
CompressedTrackerOnAnchor(prevDuration, overrunMins, currentTracker, anchorTs) ==
    anchorTs

\* Mutant of CompressedTracker: the squash branch moves the tracker back by
\* the previous task's duration without the floor at the anchor.
CompressedTrackerNoFloor(prevDuration, overrunMins, currentTracker, anchorTs) ==
    IF prevDuration > overrunMins
    THEN anchorTs
    ELSE currentTracker - prevDuration * MsPerMin

\* The tracker after the compression branch.
CompressedTracker(prevDuration, overrunMins, currentTracker, anchorTs) ==
    IF prevDuration > overrunMins
    THEN anchorTs
    ELSE Max(anchorTs, currentTracker - prevDuration * MsPerMin)

\* Mutant of TrackerAfterAnchor: the gap branch does not jump to the anchor.
TrackerAfterAnchorNoJump(newTasks, i, currentTracker, referenceDate) ==
    IF ~HasAnchor(newTasks[i], referenceDate) THEN currentTracker
    ELSE LET anchorTs == AnchorTs(newTasks[i].anchoredStartTime, referenceDate) IN
         IF currentTracker > anchorTs /\ i > 1
         THEN CompressedTracker(newTasks[i-1].duration,
                                OverrunMins(currentTracker, anchorTs),
                                currentTracker, anchorTs)
         ELSE currentTracker

\* Mutant of TrackerAfterAnchor: a first task that is reached after its
\* anchor is put back on the anchor.
TrackerAfterAnchorFirstEnforced(newTasks, i, currentTracker, referenceDate) ==
    IF ~HasAnchor(newTasks[i], referenceDate) THEN currentTracker
    ELSE LET anchorTs == AnchorTs(newTasks[i].anchoredStartTime, referenceDate) IN
         IF currentTracker > anchorTs
         THEN IF i > 1
              THEN CompressedTracker(newTasks[i-1].duration,
                                     OverrunMins(currentTracker, anchorTs),
                                     currentTracker, anchorTs)
              ELSE anchorTs
         ELSE Max(currentTracker, anchorTs)

\* The tracker after the whole anchor block of task i (1-based).
TrackerAfterAnchor(newTasks, i, currentTracker, referenceDate) ==
    IF ~HasAnchor(newTasks[i], referenceDate) THEN currentTracker
    ELSE LET anchorTs == AnchorTs(newTasks[i].anchoredStartTime, referenceDate) IN
         IF currentTracker > anchorTs
         THEN IF i > 1
              THEN CompressedTracker(newTasks[i-1].duration,
                                     OverrunMins(currentTracker, anchorTs),
                                     currentTracker, anchorTs)
              ELSE currentTracker
         ELSE Max(currentTracker, anchorTs)

\* Mutant of TasksAfterAnchor: the previous task is compressed without the
\* test currentTracker > anchorTs.
TasksAfterAnchorNoLateCheck(newTasks, i, currentTracker, referenceDate) ==
    IF HasAnchor(newTasks[i], referenceDate) /\ i > 1
    THEN [newTasks EXCEPT ![i-1].duration =
            CompressedDuration(@, OverrunMins(currentTracker,
                 AnchorTs(newTasks[i].anchoredStartTime, referenceDate)))]
    ELSE newTasks

\* Mutant of TasksAfterAnchor: the anchored task itself is squeezed, not the
\* task before it.
TasksAfterAnchorSqueezesSelf(newTasks, i, currentTracker, referenceDate) ==
    IF HasAnchor(newTasks[i], referenceDate)
       /\ currentTracker > AnchorTs(newTasks[i].anchoredStartTime, referenceDate)
       /\ i > 1
    THEN [newTasks EXCEPT ![i].duration =
            CompressedDuration(@, OverrunMins(currentTracker,
                 AnchorTs(newTasks[i].anchoredStartTime, referenceDate)))]
    ELSE newTasks

\* The task list after the anchor block of task i: only the previous
\* task's duration can change.
TasksAfterAnchor(newTasks, i, currentTracker, referenceDate) ==
    IF HasAnchor(newTasks[i], referenceDate)
       /\ currentTracker > AnchorTs(newTasks[i].anchoredStartTime, referenceDate)
       /\ i > 1
    THEN [newTasks EXCEPT ![i-1].duration =
            CompressedDuration(@, OverrunMins(currentTracker,
                 AnchorTs(newTasks[i].anchoredStartTime, referenceDate)))]
    ELSE newTasks

\* Mutant of EffectiveEnd: the overtime branch is missing.
EffectiveEndNoOvertime(task, startTime, activeTaskId, currentTime) ==
    startTime + task.duration * 60 * 1000

\* Mutant of EffectiveEnd: the active task always ends now, without the test
\* currentTime > effectiveEnd.
EffectiveEndAlwaysNow(task, startTime, activeTaskId, currentTime) ==
    IF task.id = activeTaskId /\ Truthy(currentTime)
    THEN currentTime
    ELSE startTime + task.duration * 60 * 1000

\* effectiveEnd of a task that starts at startTime.
EffectiveEnd(task, startTime, activeTaskId, currentTime) ==
    LET plannedEnd == startTime + task.duration * 60 * 1000 IN
    IF task.id = activeTaskId /\ Truthy(currentTime) /\ currentTime > plannedEnd
    THEN currentTime
    ELSE plannedEnd

\* The for loop, from index i with tracker currentTracker.
RECURSIVE RecalcLoop(_, _, _, _, _, _)
RecalcLoop(newTasks, i, currentTracker, activeTaskId, currentTime, referenceDate) ==
    IF i > Len(newTasks) THEN newTasks
    ELSE LET tracker == TrackerAfterAnchor(newTasks, i, currentTracker, referenceDate)
             squeezed == TasksAfterAnchor(newTasks, i, currentTracker, referenceDate)
             placed == [squeezed EXCEPT ![i].startTime = tracker]
         IN RecalcLoop(placed, i + 1,
                       EffectiveEnd(placed[i], tracker, activeTaskId, currentTime),
                       activeTaskId, currentTime, referenceDate)

\* let currentTracker = planStartTime || Date.now();  dateNow is the reading
\* of Date.now() inside the call.
InitialTracker(planStartTime, dateNow) ==
    IF Truthy(planStartTime) THEN planStartTime ELSE dateNow

\* completedTaskId and actualEndTime are accepted and never read.
recalculateSchedule(taskList, completedTaskId, actualEndTime, activeTaskId, currentTime, planStartTime, referenceDate, dateNow) ==
    RecalcLoop(taskList, 1, InitialTracker(planStartTime, dateNow),
               activeTaskId, currentTime, referenceDate)

\* ------------------------------------------------------------------------
\* State
\* ------------------------------------------------------------------------
VARIABLES
    tasks,            \* useState<Task[]>: the task sequence of the shown day
    activeTaskId,     \* useState<string | undefined>
    settings,         \* useState<Settings>
    queueStartTime,   \* useState<number | undefined>
    manualStartTime,  \* useState<string>: "" or "HH:MM"
    clock,            \* the reading of Date.now()
    nextId,           \* how many ids generateId() has handed out
    selectedDate,     \* useState<Date>: the day shown, as a day number
    taskStore,        \* useState<Record<string, Task[]>>: the days not shown
    tickSettings,     \* the settings closed over by the 1 s interval callback
    intervalTasks,    \* the tasks closed over by the 1 s interval callback
    displayTime,      \* Timer: useState(0), the seconds shown
    rafFrames,        \* Timer: the animation frames requested and not yet run
    isAiLoading,      \* useState(false): a handleSmartAdd call is awaiting
    smartAddRender,   \* what the awaiting handleSmartAdd call closed over
    steps,            \* how many handler runs have happened
    pc,               \* position of the recalculateSchedule driver
    argTasks,         \* driver: the tasks argument
    argActiveTaskId,  \* driver: the activeTaskId argument
    argCurrentTime,   \* driver: the currentTime argument
    argPlanStartTime, \* driver: the planStartTime argument
    argReferenceDate, \* driver: the referenceDate argument
    result,           \* driver: output of the first call
    resultAgain,      \* driver: output of a second call on the same arguments
    resultOfResult    \* driver: output of the call on the first output

aiVars == <<isAiLoading, smartAddRender>>
appVars == <<tasks, activeTaskId, settings, queueStartTime, manualStartTime, nextId,
             selectedDate, taskStore, tickSettings, intervalTasks, displayTime, rafFrames,
             aiVars>>
viewVars == <<selectedDate, taskStore>>
driverVars == <<pc, argTasks, argActiveTaskId, argCurrentTime, argPlanStartTime,
                argReferenceDate, result, resultAgain, resultOfResult>>
vars == <<appVars, clock, steps, driverVars>>

\* ------------------------------------------------------------------------
\* App: constants and helpers
\* ------------------------------------------------------------------------
DEFAULT_SETTINGS ==
    [pomodoroDuration |-> 25, shortBreakDuration |-> 5, longBreakDuration |-> 15,
     autoStartBreaks |-> FALSE, autoStartPomodoros |-> FALSE]

\* Days are numbered; new Date() at mount falls on day Today, and the clock
\* stays within that day.
Today == 0

\* getDateKey(date): the day number.
getDateKey(ms) == ms \div MsPerDay

\* const isToday = currentDateKey === getDateKey(new Date());
isToday == selectedDate = getDateKey(clock)

\* tasks.find(t => t.id === id): the index of the first such task, 0 if none.
IndexOf(taskList, id) ==
    IF \E i \in 1..Len(taskList) : taskList[i].id = id
    THEN CHOOSE i \in 1..Len(taskList) :
            taskList[i].id = id /\ \A j \in 1..(i-1) : taskList[j].id # id
    ELSE 0

\* calculateExpectedPomos
calculateExpectedPomos(minutes) ==
    Ceil(minutes, settings.pomodoroDuration + settings.shortBreakDuration)

\* getEffectiveQueueStart
EffectiveQueueStart(manual, date, queueStart) ==
    IF manual # NoAnchor
    THEN date * MsPerDay + manual[1] * MsPerHour + manual[2] * MsPerMin
    ELSE queueStart

getEffectiveQueueStart ==
    EffectiveQueueStart(manualStartTime, selectedDate, queueStartTime)

\* updateSchedule: the value handed to setTasks.  Both reads of Date.now()
\* (the currentTime argument and the default of the tracker) see `clock`.
updateScheduleOn(currentTasks, completedId, actualEnd, planStart, activeId, date) ==
    recalculateSchedule(currentTasks, completedId, actualEnd, activeId,
                        clock, planStart, date, clock)

\* Mutant of updateSchedule: the list is committed as the handler built it,
\* without a pass.
updateScheduleNoPass(currentTasks, completedId, actualEnd, planStart, activeId) ==
    currentTasks

updateSchedule(currentTasks, completedId, actualEnd, planStart, activeId) ==
    updateScheduleOn(currentTasks, completedId, actualEnd, planStart, activeId,
                     selectedDate)

\* The effect on [currentTime, activeTaskId, manualStartTime]: a pass over the
\* committed tasks when there are any.
ScheduleEffectOn(currentTasks, activeId, planStart, date) ==
    IF Len(currentTasks) > 0
    THEN updateScheduleOn(currentTasks, Undefined, Undefined, planStart, activeId,
                          date)
    ELSE currentTasks

ScheduleEffect(currentTasks, activeId, planStart) ==
    ScheduleEffectOn(currentTasks, activeId, planStart, selectedDate)

\* ------------------------------------------------------------------------
\* App: timer handlers
\* ------------------------------------------------------------------------

\* Mutant of PausedTimer: the remaining time is not clamped at 0.
PausedTimerNoClamp(timer) ==
    LET started == IF Truthy(timer.lastStartedAt) THEN timer.lastStartedAt ELSE clock
        elapsed == (clock - started) \div MsPerSec
    IN [timer EXCEPT !.isRunning = FALSE,
                     !.remainingSeconds = timer.remainingSeconds - elapsed,
                     !.lastStartedAt = Undefined]

\* The paused copy of a running timer (both branches of handleToggleTimer).
PausedTimer(timer) ==
    LET started == IF Truthy(timer.lastStartedAt) THEN timer.lastStartedAt ELSE clock
        elapsed == (clock - started) \div MsPerSec
    IN [timer EXCEPT !.isRunning = FALSE,
                     !.remainingSeconds = Max(0, timer.remainingSeconds - elapsed),
                     !.lastStartedAt = Undefined]

\* handleToggleTimer: the map callback.
ToggledTask(t, taskId) ==
    IF t.id = taskId
    THEN IF t.timer.isRunning
         THEN [t EXCEPT !.timer = PausedTimer(t.timer)]
         ELSE [t EXCEPT !.timer.isRunning = TRUE, !.timer.lastStartedAt = clock]
    ELSE IF t.timer.isRunning
         THEN [t EXCEPT !.timer = PausedTimer(t.timer)]
         ELSE t

\* Mutant of NextMode: the long break is decided on the count before the
\* increment.
NextModeBeforeIncrement(mode, completedPomos) ==
    IF mode = "pomo"
    THEN IF (completedPomos - 1) % 4 = 0 THEN "long" ELSE "short"
    ELSE "pomo"

\* The mode that follows a finished interval.
NextMode(mode, completedPomos) ==
    IF mode = "pomo"
    THEN IF completedPomos % 4 = 0 THEN "long" ELSE "short"
    ELSE "pomo"

\* The length in seconds of an interval of the given mode.
NextTime(nextMode, s) ==
    CASE nextMode = "pomo"  -> s.pomodoroDuration * SecPerMin
      [] nextMode = "long"  -> s.longBreakDuration * SecPerMin
      [] nextMode = "short" -> s.shortBreakDuration * SecPerMin

\* Mutant of ShouldAutoStart: the two auto-start flags are swapped.
ShouldAutoStartSwapped(mode, s) ==
    IF mode = "pomo" THEN s.autoStartPomodoros ELSE s.autoStartBreaks

\* const shouldAutoStart = ...
ShouldAutoStart(mode, s) ==
    IF mode = "pomo" THEN s.autoStartBreaks ELSE s.autoStartPomodoros

\* handleTimerFinish: the map callback.  s is the `settings` of the render
\* whose handleTimerFinish is called.
FinishedTask(t, taskId, s) ==
    IF t.id # taskId THEN t
    ELSE LET completedPomos == IF t.timer.mode = "pomo"
                               THEN t.completedPomodoros + 1
                               ELSE t.completedPomodoros
             nextMode == NextMode(t.timer.mode, completedPomos)
             shouldAutoStart == ShouldAutoStart(t.timer.mode, s)
         IN [t EXCEPT !.completedPomodoros = completedPomos,
                      !.timer = [remainingSeconds |-> NextTime(nextMode, s),
                                 isRunning |-> shouldAutoStart,
                                 mode |-> nextMode,
                                 lastStartedAt |-> IF shouldAutoStart
                                                   THEN clock ELSE Undefined]]

handleTimerFinishTasks(taskList, taskId, s) ==
    [i \in 1..Len(taskList) |-> FinishedTask(taskList[i], taskId, s)]

\* ------------------------------------------------------------------------
\* App: task handlers
\* ------------------------------------------------------------------------

\* The task object built by handleAddTask.
NewTask(id, duration, anchoredStartTime) ==
    [id |-> id,
     startTime |-> 0,
     duration |-> duration,
     expectedPomodoros |-> calculateExpectedPomos(duration),
     completedPomodoros |-> 0,
     status |-> "pending",
     anchoredStartTime |-> anchoredStartTime,
     timer |-> [remainingSeconds |-> settings.pomodoroDuration * SecPerMin,
                isRunning |-> FALSE,
                mode |-> "pomo",
                lastStartedAt |-> Undefined]]

\* if (duration <= 0) duration = 15;
AddDuration(duration) == IF duration <= 0 THEN 15 ELSE duration

\* newTaskList.splice(insertionIndex, 0, newTask), insertionIndex 0-based.
InsertAt(taskList, insertionIndex, t) ==
    SubSeq(taskList, 1, insertionIndex) \o <<t>>
        \o SubSeq(taskList, insertionIndex + 1, Len(taskList))

\* splice(fromIndex, 1)
RemoveAt(taskList, index) ==
    SubSeq(taskList, 1, index) \o SubSeq(taskList, index + 2, Len(taskList))

\* Mutant of Reordered: the tasks at the two indices change places.
ReorderedBySwap(taskList, fromIndex, toIndex) ==
    [k \in 1..Len(taskList) |->
        IF k = fromIndex + 1 THEN taskList[toIndex + 1]
        ELSE IF k = toIndex + 1 THEN taskList[fromIndex + 1]
        ELSE taskList[k]]

\* handleReorderTasks: the moved list (indices 0-based).
Reordered(taskList, fromIndex, toIndex) ==
    InsertAt(RemoveAt(taskList, fromIndex), toIndex, taskList[fromIndex + 1])

\* Mutant of SnappedDuration: a task that has not started keeps its duration.
SnappedDurationKeepsFuture(task, now, isAlreadyCompleted) ==
    IF isAlreadyCompleted THEN task.duration
    ELSE IF task.startTime <= now /\ isToday
         THEN Max(1, Ceil(now - task.startTime, MsPerMin))
         ELSE task.duration

\* handleTaskComplete: newDuration
SnappedDuration(task, now, isAlreadyCompleted) ==
    IF isAlreadyCompleted THEN task.duration
    ELSE IF task.startTime <= now /\ isToday
         THEN Max(1, Ceil(now - task.startTime, MsPerMin))
         ELSE IF isToday THEN 0 ELSE task.duration

\* handleTaskComplete: the map callback.
CompletedTask(t, taskId, newStatus, newDuration) ==
    IF t.id = taskId
    THEN [t EXCEPT !.status = newStatus,
                   !.duration = newDuration,
                   !.timer.isRunning = FALSE]
    ELSE t

\* handleUpdateTask: the map callback; updates is a record holding the
\* fields that are set.
UpdatedTask(t, id, updates) ==
    IF t.id # id THEN t
    ELSE LET merged == [f \in DOMAIN t |->
                          IF f \in DOMAIN updates THEN updates[f] ELSE t[f]]
         IN IF "duration" \in DOMAIN updates /\ Truthy(updates.duration)
            THEN [merged EXCEPT !.expectedPomodoros =
                                    calculateExpectedPomos(updates.duration)]
            ELSE merged

\* handleSelectTask: the map callback.
SelectedTask(t, id) == IF t.id = id THEN [t EXCEPT !.status = "active"] ELSE t

\* ------------------------------------------------------------------------
\* Inputs of the App model
\* ------------------------------------------------------------------------
MaxTasks == 2
MaxDay == 1
MaxTimerTasks == 2
MaxTimerSteps == 8
MaxSteps == 4
MaxClockSteps == 2
MaxInputDuration == 1
MaxAiTasks == 1
MaxReorderTasks == 3
MaxReorderSteps == 2

\* The days the date navigation reaches.
Days == Today..MaxDay

StartOfDay == At(8, 0, 0)
ClockStep == 40 * MsPerSec

\* Durations typed into the add form and the duration field.
InputDurations == 0..MaxInputDuration

\* Anchors typed into the anchor field ("HH:MM").
InputAnchors == {<<8, 1>>}

\* Values of the "Start Plan At" field.
InputManualStarts == {NoAnchor, <<8, 0>>}

\* Settings offered to handleUpdateSettings: one-minute intervals with one
\* of the auto-start flags set.
InputSettings ==
    {[pomodoroDuration |-> 1, shortBreakDuration |-> 1, longBreakDuration |-> 2,
      autoStartBreaks |-> b, autoStartPomodoros |-> ~b] : b \in BOOLEAN}

\* ------------------------------------------------------------------------
\* Initial state
\* ------------------------------------------------------------------------
DriverIdle ==
    /\ pc = "idle"
    /\ argTasks = <<>>
    /\ argActiveTaskId = NoId
    /\ argCurrentTime = Undefined
    /\ argPlanStartTime = Undefined
    /\ argReferenceDate = Undefined
    /\ result = <<>>
    /\ resultAgain = <<>>
    /\ resultOfResult = <<>>

\* No handleSmartAdd call is awaiting.
NoRender ==
    [tasks |-> <<>>, activeTaskId |-> NoId, settings |-> DEFAULT_SETTINGS,
     selectedDate |-> Today, currentQueueStart |-> Undefined, baseTime |-> 0]

AppInit ==
    /\ tasks = <<>>
    /\ intervalTasks = <<>>
    /\ activeTaskId = NoId
    /\ settings = DEFAULT_SETTINGS
    /\ tickSettings = DEFAULT_SETTINGS
    /\ selectedDate = Today
    /\ taskStore = [d \in Days |-> <<>>]
    /\ displayTime = 0
    /\ rafFrames = <<>>
    /\ queueStartTime = Undefined
    /\ manualStartTime = NoAnchor
    /\ nextId = 0
    /\ isAiLoading = FALSE
    /\ smartAddRender = NoRender

Init ==
    /\ AppInit
    /\ clock = StartOfDay
    /\ steps = 0
    /\ DriverIdle

\* ------------------------------------------------------------------------
\* Actions of the App
\* ------------------------------------------------------------------------

\* The exploration enters the plan first (up to MaxTasks submissions of the
\* add form, at any clock reading and on any day) and then runs up to MaxSteps
\* other handlers and interval callbacks; a run of the timer alone (pc =
\* "timer") has MaxTimerSteps of them, a run of the reordering (pc =
\* "reorder") MaxReorderSteps.
StepLimit ==
    CASE pc = "timer" -> MaxTimerSteps
      [] pc = "reorder" -> MaxReorderSteps
      [] OTHER -> MaxSteps

CountStep == steps < StepLimit /\ steps' = steps + 1

\* Timer.updateDisplay: the seconds the Timer shows for the active task at
\* the clock reading now; without an active task the state is left as it is.
Shown(taskList, activeId, now, shown) ==
    LET i == IndexOf(taskList, activeId) IN
    IF i = 0 THEN shown
    ELSE LET timer == taskList[i].timer
             elapsed == (now - timer.lastStartedAt) \div MsPerSec
         IN IF timer.isRunning /\ Truthy(timer.lastStartedAt)
            THEN Max(0, timer.remainingSeconds - elapsed)
            ELSE timer.remainingSeconds

\* A requested animation frame: the timer of the activeTask its updateDisplay
\* closed over, and whether rafRef.current holds its handle.
Frame(timer) == [timer |-> timer, inRef |-> TRUE]

\* rafRef.current = requestAnimationFrame(updateDisplay): the handle kept is
\* that of the new frame.
Requested(frames, timer) ==
    [k \in 1..Len(frames) |-> [frames[k] EXCEPT !.inRef = FALSE]] \o <<Frame(timer)>>

\* cancelAnimationFrame(rafRef.current)
Cancelled(frames) == SelectSeq(frames, LAMBDA f : ~f.inRef)

\* Mutant of FramesAfterEffect: the effect has no cleanup.
FramesAfterEffectNoCleanup(frames, taskList, activeId) ==
    LET i == IndexOf(taskList, activeId) IN
    IF i # 0 /\ taskList[i].timer.isRunning /\ Truthy(taskList[i].timer.lastStartedAt)
    THEN Requested(frames, taskList[i].timer)
    ELSE frames

\* The frames after the Timer's effect on [updateDisplay]: the cleanup
\* cancels the frame rafRef names, then updateDisplay runs for the new
\* activeTask and requests a frame when its timer is running.
FramesAfterEffect(frames, taskList, activeId) ==
    LET i == IndexOf(taskList, activeId) IN
    IF i # 0 /\ taskList[i].timer.isRunning /\ Truthy(taskList[i].timer.lastStartedAt)
    THEN Requested(Cancelled(frames), taskList[i].timer)
    ELSE Cancelled(frames)

\* The Timer's effect on [updateDisplay]: updateDisplay is rebuilt whenever
\* the activeTask object is (a handler that leaves the object in place
\* leaves its loop, which this effect would replace by an equal one), i.e.
\* the effect runs at the end of every handler.
DisplayEffect ==
    /\ displayTime' = Shown(tasks', activeTaskId', clock', displayTime)
    /\ rafFrames' = FramesAfterEffect(rafFrames, tasks', activeTaskId')

\* Time passes.
AdvanceClock ==
    /\ clock + ClockStep <= StartOfDay + MaxClockSteps * ClockStep
    /\ clock' = clock + ClockStep
    /\ UNCHANGED <<appVars, steps, driverVars>>

\* The 60 s interval: setCurrentTime(Date.now()), then the schedule effect.
ClockRefresh ==
    /\ CountStep
    /\ tasks' = ScheduleEffect(tasks, activeTaskId, getEffectiveQueueStart)
    /\ tickSettings' = IF Len(tasks) > 0 THEN settings ELSE tickSettings
    /\ intervalTasks' = tasks'
    /\ UNCHANGED <<activeTaskId, settings, queueStartTime, manualStartTime,
                   nextId, clock, viewVars, aiVars, driverVars>>
    /\ DisplayEffect

\* The "Start Plan At" field: setManualStartTime, then the schedule effect.
SetManualStartTime ==
    /\ CountStep
    /\ \E v \in InputManualStarts :
           /\ v # manualStartTime
           /\ manualStartTime' = v
           /\ tasks' = ScheduleEffect(tasks, activeTaskId,
                           EffectiveQueueStart(v, selectedDate, queueStartTime))
           /\ tickSettings' = IF Len(tasks) > 0 THEN settings ELSE tickSettings
           /\ intervalTasks' = tasks'
           /\ UNCHANGED <<activeTaskId, settings, queueStartTime, nextId, clock,
                          viewVars, aiVars, driverVars>>
    /\ DisplayEffect

handleUpdateSettings ==
    /\ CountStep
    /\ \E newSettings \in InputSettings \cup {DEFAULT_SETTINGS} :
           /\ newSettings # settings
           /\ settings' = newSettings
           /\ UNCHANGED <<tickSettings, intervalTasks, displayTime, rafFrames, tasks, activeTaskId, queueStartTime, manualStartTime,
                          nextId, clock, viewVars, aiVars, driverVars>>

\* The 1 s interval: the last running task whose timer has expired is
\* finished.  The effect that installs the interval depends on [tasks] only,
\* so its callback reads the tasks of the render in which tasks last changed
\* and calls that render's handleTimerFinish, with that render's settings.
ExpiredIndexes ==
    {i \in 1..Len(intervalTasks) :
        /\ intervalTasks[i].timer.isRunning
        /\ Truthy(intervalTasks[i].timer.lastStartedAt)
        /\ intervalTasks[i].timer.remainingSeconds
             - ((clock - intervalTasks[i].timer.lastStartedAt) \div MsPerSec) <= 0}

Tick ==
    IF ExpiredIndexes # {}
    THEN LET last == CHOOSE i \in ExpiredIndexes : \A j \in ExpiredIndexes : j <= i
         IN /\ CountStep
            /\ tasks' = handleTimerFinishTasks(tasks, intervalTasks[last].id, tickSettings)
            /\ tickSettings' = settings
            /\ intervalTasks' = tasks'
            /\ UNCHANGED <<activeTaskId, settings, queueStartTime, manualStartTime,
                           nextId, clock, viewVars, aiVars, driverVars>>
            /\ DisplayEffect
    ELSE UNCHANGED vars

\* The tasks of every day: the store with the shown day's entry current.
TotalTasks ==
    LET RECURSIVE Sum(_)
        Sum(D) == IF D = {} THEN 0
                  ELSE LET d == CHOOSE x \in D : TRUE
                       IN Len(taskStore[d]) + Sum(D \ {d})
    IN Len(tasks) + Sum(Days \ {selectedDate})

\* The Timer component shows its buttons for activeTask only.
activeTask == IndexOf(tasks, activeTaskId)

\* The frame k runs the updateDisplay that requested it: the seconds left of
\* the timer it closed over.
FrameShown(k) ==
    LET timer == rafFrames[k].timer
    IN Max(0, timer.remainingSeconds - ((clock - timer.lastStartedAt) \div MsPerSec))

\* Mutant of updateDisplay: a frame that finds the time up finishes the
\* interval itself.
updateDisplayFinishes ==
    \E k \in 1..Len(rafFrames) :
        /\ displayTime' = FrameShown(k)
        /\ rafFrames' = Requested(RemoveAt(rafFrames, k - 1), rafFrames[k].timer)
        /\ tasks' = IF FrameShown(k) = 0
                    THEN handleTimerFinishTasks(tasks, activeTaskId, settings)
                    ELSE tasks
        /\ UNCHANGED <<activeTaskId, settings, queueStartTime, manualStartTime,
                       nextId, selectedDate, taskStore, tickSettings, intervalTasks, clock, steps,
                       aiVars, driverVars>>

\* A frame of the display loop (requestAnimationFrame(updateDisplay)): a
\* requested frame runs; its updateDisplay closed over a running timer, so
\* it shows the seconds left, requests the next frame and hands nothing back
\* to the App.
updateDisplay ==
    \E k \in 1..Len(rafFrames) :
        /\ displayTime' = FrameShown(k)
        /\ rafFrames' = Requested(RemoveAt(rafFrames, k - 1), rafFrames[k].timer)
        /\ UNCHANGED <<tasks, activeTaskId, settings, queueStartTime, manualStartTime,
                       nextId, selectedDate, taskStore, tickSettings, intervalTasks, clock, steps,
                       aiVars, driverVars>>

handleToggleTimer ==
    /\ CountStep
    /\ activeTask # 0
    /\ tasks' = [i \in 1..Len(tasks) |-> ToggledTask(tasks[i], activeTaskId)]
    /\ tickSettings' = settings
    /\ intervalTasks' = tasks'
    /\ UNCHANGED <<activeTaskId, settings, queueStartTime, manualStartTime,
                   nextId, clock, viewVars, aiVars, driverVars>>
    /\ DisplayEffect

\* Mutant of handleSkipTimer: the interval entered by a skip is never started.
handleSkipTimerNoAutoStart ==
    /\ CountStep
    /\ activeTask # 0
    /\ tasks' = [i \in 1..Len(tasks) |->
                   IF tasks[i].id = activeTaskId
                   THEN [FinishedTask(tasks[i], activeTaskId, settings)
                            EXCEPT !.timer.isRunning = FALSE,
                                   !.timer.lastStartedAt = Undefined]
                   ELSE tasks[i]]
    /\ tickSettings' = settings
    /\ intervalTasks' = tasks'
    /\ UNCHANGED <<activeTaskId, settings, queueStartTime, manualStartTime,
                   nextId, clock, viewVars, aiVars, driverVars>>
    /\ DisplayEffect

\* Mutant of handleSkipTimer: the interval installed before the skip stays,
\* with the tasks and settings it closed over.
handleSkipTimerKeepsInterval ==
    /\ CountStep
    /\ activeTask # 0
    /\ tasks' = handleTimerFinishTasks(tasks, activeTaskId, settings)
    /\ UNCHANGED <<tickSettings, intervalTasks>>
    /\ UNCHANGED <<activeTaskId, settings, queueStartTime, manualStartTime,
                   nextId, clock, viewVars, aiVars, driverVars>>
    /\ DisplayEffect

handleSkipTimer ==
    /\ CountStep
    /\ activeTask # 0
    /\ tasks' = handleTimerFinishTasks(tasks, activeTaskId, settings)
    /\ tickSettings' = settings
    /\ intervalTasks' = tasks'
    /\ UNCHANGED <<activeTaskId, settings, queueStartTime, manualStartTime,
                   nextId, clock, viewVars, aiVars, driverVars>>
    /\ DisplayEffect

\* Mutant of handleSelectTask: the timers running on the other tasks are
\* paused by the selection.
handleSelectTaskPausesOthers ==
    /\ CountStep
    /\ \E i \in 1..Len(tasks) :
           /\ tasks[i].status # "completed"
           /\ LET id == tasks[i].id
                  marked == [j \in 1..Len(tasks) |->
                               IF tasks[j].id # id /\ tasks[j].timer.isRunning
                               THEN [tasks[j] EXCEPT !.timer = PausedTimer(tasks[j].timer)]
                               ELSE SelectedTask(tasks[j], id)]
              IN /\ activeTaskId' = id
                 /\ tasks' = IF id # activeTaskId
                             THEN ScheduleEffect(marked, id, getEffectiveQueueStart)
                             ELSE marked
           /\ tickSettings' = settings
           /\ intervalTasks' = tasks'
           /\ UNCHANGED <<settings, queueStartTime, manualStartTime, nextId, clock,
                          viewVars, aiVars, driverVars>>
    /\ DisplayEffect

\* A click on a task row that is not completed; when the active id changes
\* the schedule effect runs on the committed list.
handleSelectTask ==
    /\ CountStep
    /\ \E i \in 1..Len(tasks) :
           /\ tasks[i].status # "completed"
           /\ LET id == tasks[i].id
                  marked == [j \in 1..Len(tasks) |-> SelectedTask(tasks[j], id)]
              IN /\ activeTaskId' = id
                 /\ tasks' = IF id # activeTaskId
                             THEN ScheduleEffect(marked, id, getEffectiveQueueStart)
                             ELSE marked
           /\ tickSettings' = settings
           /\ intervalTasks' = tasks'
           /\ UNCHANGED <<settings, queueStartTime, manualStartTime, nextId, clock,
                          viewVars, aiVars, driverVars>>
    /\ DisplayEffect

\* Mutant of handleTaskComplete: completing any task clears the active id.
handleTaskCompleteAlwaysClears ==
    /\ CountStep
    /\ \E i \in 1..Len(tasks) :
           LET task == tasks[i]
               taskId == task.id
               now == clock
               isAlreadyCompleted == task.status = "completed"
               newStatus == IF isAlreadyCompleted THEN "pending" ELSE "completed"
               newDuration == SnappedDuration(task, now, isAlreadyCompleted)
               clears == ~isAlreadyCompleted
               updatedTasks == [j \in 1..Len(tasks) |->
                                  CompletedTask(tasks[j], taskId, newStatus, newDuration)]
               scheduled == updateSchedule(updatedTasks,
                                IF ~isAlreadyCompleted THEN taskId ELSE NoId,
                                IF ~isAlreadyCompleted THEN now ELSE Undefined,
                                getEffectiveQueueStart, activeTaskId)
           IN /\ activeTaskId' = IF clears THEN NoId ELSE activeTaskId
              /\ tasks' = IF clears
                          THEN ScheduleEffect(scheduled, NoId, getEffectiveQueueStart)
                          ELSE scheduled
              /\ tickSettings' = settings
              /\ intervalTasks' = tasks'
              /\ UNCHANGED <<settings, queueStartTime, manualStartTime, nextId,
                             clock, viewVars, aiVars, driverVars>>
    /\ DisplayEffect

\* The checkbox of any row, or the Timer's button for the active task.  The
\* pass of updateSchedule sees the active id of the render that made the
\* handler; when the id is cleared the schedule effect runs once more.
handleTaskComplete ==
    /\ CountStep
    /\ \E i \in 1..Len(tasks) :
           LET task == tasks[i]
               taskId == task.id
               now == clock
               isAlreadyCompleted == task.status = "completed"
               newStatus == IF isAlreadyCompleted THEN "pending" ELSE "completed"
               newDuration == SnappedDuration(task, now, isAlreadyCompleted)
               clears == ~isAlreadyCompleted /\ taskId = activeTaskId
               updatedTasks == [j \in 1..Len(tasks) |->
                                  CompletedTask(tasks[j], taskId, newStatus, newDuration)]
               scheduled == updateSchedule(updatedTasks,
                                IF ~isAlreadyCompleted THEN taskId ELSE NoId,
                                IF ~isAlreadyCompleted THEN now ELSE Undefined,
                                getEffectiveQueueStart, activeTaskId)
           IN /\ activeTaskId' = IF clears THEN NoId ELSE activeTaskId
              /\ tasks' = IF clears
                          THEN ScheduleEffect(scheduled, NoId, getEffectiveQueueStart)
                          ELSE scheduled
              /\ tickSettings' = settings
              /\ intervalTasks' = tasks'
              /\ UNCHANGED <<settings, queueStartTime, manualStartTime, nextId,
                             clock, viewVars, aiVars, driverVars>>
    /\ DisplayEffect

handleDeleteTask ==
    /\ CountStep
    /\ \E i \in 1..Len(tasks) :
           LET remaining == RemoveAt(tasks, i - 1) IN
           /\ IF Len(remaining) = 0
              THEN queueStartTime' = Undefined /\ tasks' = <<>>
              ELSE /\ tasks' = updateSchedule(remaining, NoId, Undefined,
                                              getEffectiveQueueStart, activeTaskId)
                   /\ UNCHANGED queueStartTime
           /\ tickSettings' = settings
           /\ intervalTasks' = tasks'
           /\ UNCHANGED <<activeTaskId, settings, manualStartTime, nextId, clock,
                          viewVars, aiVars, driverVars>>
    /\ DisplayEffect

\* window.confirm answered yes.
handleDeleteAllTasks ==
    /\ CountStep
    /\ queueStartTime' = Undefined
    /\ tasks' = <<>>
    /\ activeTaskId' = NoId
    /\ tickSettings' = settings
    /\ intervalTasks' = tasks'
    /\ UNCHANGED <<settings, manualStartTime, nextId, clock, viewVars, aiVars, driverVars>>
    /\ DisplayEffect

\* The "Clear Done" button is rendered when some task is completed.
handleClearCompleted ==
    /\ CountStep
    /\ \E i \in 1..Len(tasks) : tasks[i].status = "completed"
    /\ LET remaining == SelectSeq(tasks, LAMBDA t : t.status # "completed") IN
       /\ queueStartTime' = IF Len(remaining) = 0 THEN Undefined ELSE queueStartTime
       /\ tasks' = updateSchedule(remaining, NoId, Undefined,
                                  getEffectiveQueueStart, activeTaskId)
    /\ tickSettings' = settings
    /\ intervalTasks' = tasks'
    /\ UNCHANGED <<activeTaskId, settings, manualStartTime, nextId, clock,
                   viewVars, aiVars, driverVars>>
    /\ DisplayEffect

\* The edits TaskList sends: a duration (>= 0) or an anchor of a task that is
\* not completed, or a title or colour (no modelled field).
InputUpdates ==
    {[duration |-> d] : d \in InputDurations}
        \cup {[anchoredStartTime |-> a] : a \in InputAnchors \cup {NoAnchor}}
        \cup {[title |-> "edited"]}

handleUpdateTask ==
    /\ CountStep
    /\ \E i \in 1..Len(tasks), updates \in InputUpdates :
           /\ ("duration" \in DOMAIN updates) => tasks[i].status # "completed"
           /\ LET updatedTasks == [j \in 1..Len(tasks) |->
                                     UpdatedTask(tasks[j], tasks[i].id,
                                        [f \in DOMAIN updates \ {"title"} |-> updates[f]])]
              IN tasks' = updateSchedule(updatedTasks, NoId, Undefined,
                                         getEffectiveQueueStart, activeTaskId)
           /\ tickSettings' = settings
           /\ intervalTasks' = tasks'
           /\ UNCHANGED <<activeTaskId, settings, queueStartTime, manualStartTime,
                          nextId, clock, viewVars, aiVars, driverVars>>
    /\ DisplayEffect

\* The previous-day and next-day buttons: setSelectedDate, then the effects
\* on [currentDateKey]: the tasks of the day left are in the store (the effect
\* on [tasks, currentDateKey] put them there), the stored tasks of the new day
\* are loaded, the active id is cleared unless the new day is today, and when
\* the active id changed the schedule effect runs on the loaded tasks.  The
\* entry of the day shown always equals tasks, so taskStore keeps it empty
\* and holds the lists of the other days.
handleDateChange ==
    /\ steps < MaxSteps
    /\ steps' = IF steps = 0 THEN 0 ELSE steps + 1
    /\ \E offset \in {-1, 1} :
           LET newDate == selectedDate + offset
               loaded == taskStore[newDate]
               newActive == IF newDate # getDateKey(clock) THEN NoId ELSE activeTaskId
           IN /\ newDate \in Days
              /\ selectedDate' = newDate
              /\ taskStore' = [taskStore EXCEPT ![selectedDate] = tasks,
                                                ![newDate] = <<>>]
              /\ activeTaskId' = newActive
              /\ tasks' = IF newActive # activeTaskId
                          THEN ScheduleEffectOn(loaded, newActive,
                                   EffectiveQueueStart(manualStartTime, newDate,
                                                       queueStartTime),
                                   newDate)
                          ELSE loaded
              /\ tickSettings' = settings
              /\ intervalTasks' = tasks'
              /\ UNCHANGED <<settings, queueStartTime, manualStartTime, nextId,
                             clock, aiVars, driverVars>>
    /\ DisplayEffect

\* Drag and drop, or the move up / move down buttons.
handleReorderTasks ==
    \E fromIndex, toIndex \in 0..(Len(tasks) - 1) :
        IF fromIndex = toIndex
        THEN UNCHANGED vars
        ELSE /\ CountStep
             /\ tasks' = updateSchedule(Reordered(tasks, fromIndex, toIndex), NoId,
                                        Undefined, getEffectiveQueueStart, activeTaskId)
             /\ tickSettings' = settings
             /\ intervalTasks' = tasks'
             /\ UNCHANGED <<activeTaskId, settings, queueStartTime, manualStartTime,
                            nextId, clock, viewVars, aiVars, driverVars>>
             /\ DisplayEffect

\* The add form, single-task path: a duration, an optional "at HH:MM" anchor
\* and an insertion index ("before X" / "after X", default the end).
handleAddTask ==
    /\ steps = 0
    /\ \E duration \in InputDurations,
          anchoredStartTime \in InputAnchors \cup {NoAnchor},
          insertionIndex \in 0..Len(tasks) :
           LET startsQueue == Len(tasks) = 0 /\ ~Truthy(getEffectiveQueueStart)
                              /\ manualStartTime = NoAnchor
               currentQueueStart == IF startsQueue THEN clock ELSE getEffectiveQueueStart
               newTask == NewTask(nextId + 1, AddDuration(duration), anchoredStartTime)
           IN /\ TotalTasks < MaxTasks
              /\ nextId' = nextId + 1
              /\ queueStartTime' = IF startsQueue THEN clock ELSE queueStartTime
              /\ tasks' = updateSchedule(InsertAt(tasks, insertionIndex, newTask),
                                         NoId, Undefined, currentQueueStart, activeTaskId)
              /\ tickSettings' = settings
              /\ intervalTasks' = tasks'
              /\ UNCHANGED <<activeTaskId, settings, manualStartTime, clock, steps,
                             viewVars, aiVars, driverVars>>
    /\ DisplayEffect

\* The answers of parseNaturalLanguagePlan: a list of tasks with a duration
\* (0 stands for a missing one); the empty list is also what it returns when
\* the request fails.
AiResponses ==
    UNION {[1..n -> [duration : InputDurations]] : n \in 0..MaxAiTasks}

\* handleSmartAdd: the map callback over aiTasks; s is the `settings` of the
\* render the call closed over.
AiTask(id, t, currentStart, s) ==
    LET duration == IF Truthy(t.duration) THEN t.duration
                    ELSE s.pomodoroDuration + s.shortBreakDuration
    IN [id |-> id,
        startTime |-> currentStart,
        duration |-> duration,
        expectedPomodoros |-> Ceil(duration, s.pomodoroDuration + s.shortBreakDuration),
        completedPomodoros |-> 0,
        status |-> "pending",
        anchoredStartTime |-> NoAnchor,
        timer |-> [remainingSeconds |-> s.pomodoroDuration * SecPerMin,
                   isRunning |-> FALSE,
                   mode |-> "pomo",
                   lastStartedAt |-> Undefined]]

\* currentStart before the k-th element of aiTasks.
AiStart(aiTasks, k, baseTime, s) ==
    LET RECURSIVE Before(_)
        Before(j) == IF j = 0 THEN baseTime
                     ELSE Before(j - 1)
                            + AiTask(0, aiTasks[j], 0, s).duration * MsPerMin
    IN Before(k - 1)

\* const combinedTasks = [...tasks, ...newTasks];
SmartAddCombined(render, aiTasks) ==
    render.tasks \o [k \in 1..Len(aiTasks) |->
                       AiTask(nextId + k, aiTasks[k],
                              AiStart(aiTasks, k, render.baseTime, render.settings),
                              render.settings)]

\* The "AI" button (disabled while isAiLoading): handleSmartAdd up to its
\* await.  The call keeps the tasks, the active id, the settings and the day
\* of the render that made it.
handleSmartAdd ==
    /\ CountStep
    /\ ~isAiLoading
    /\ LET startsQueue == Len(tasks) = 0 /\ ~Truthy(getEffectiveQueueStart)
                          /\ manualStartTime = NoAnchor
           currentQueueStart == IF startsQueue THEN clock ELSE getEffectiveQueueStart
           baseTime == IF Len(tasks) > 0
                       THEN tasks[Len(tasks)].startTime
                              + tasks[Len(tasks)].duration * MsPerMin
                       ELSE IF Truthy(currentQueueStart)
                            THEN currentQueueStart ELSE clock
       IN /\ isAiLoading' = TRUE
          /\ queueStartTime' = IF startsQueue THEN clock ELSE queueStartTime
          /\ smartAddRender' = [tasks |-> tasks,
                                activeTaskId |-> activeTaskId,
                                settings |-> settings,
                                selectedDate |-> selectedDate,
                                currentQueueStart |-> currentQueueStart,
                                baseTime |-> baseTime]
    /\ UNCHANGED <<tasks, activeTaskId, settings, manualStartTime, nextId, clock,
                   viewVars, tickSettings, intervalTasks, displayTime, rafFrames, driverVars>>

\* parseNaturalLanguagePlan has answered: handleSmartAdd from its await to
\* its end.  updateSchedule is the one of the render the call closed over;
\* Date.now() is read now.
handleSmartAddResumes ==
    /\ CountStep
    /\ isAiLoading
    /\ \E aiTasks \in AiResponses :
           /\ nextId' = nextId + Len(aiTasks)
           /\ tasks' = updateScheduleOn(SmartAddCombined(smartAddRender, aiTasks),
                                        NoId, Undefined,
                                        smartAddRender.currentQueueStart,
                                        smartAddRender.activeTaskId,
                                        smartAddRender.selectedDate)
    /\ isAiLoading' = FALSE
    /\ smartAddRender' = NoRender
    /\ tickSettings' = settings
    /\ intervalTasks' = tasks'
    /\ UNCHANGED <<activeTaskId, settings, queueStartTime, manualStartTime, clock,
                   viewVars, driverVars>>
    /\ DisplayEffect

Next ==
    \/ AdvanceClock
    \/ ClockRefresh
    \/ SetManualStartTime
    \/ handleUpdateSettings
    \/ Tick
    \/ handleToggleTimer
    \/ handleSkipTimer
    \/ handleSelectTask
    \/ handleTaskComplete
    \/ handleDeleteTask
    \/ handleDeleteAllTasks
    \/ handleClearCompleted
    \/ handleUpdateTask
    \/ handleReorderTasks
    \/ handleDateChange
    \/ handleAddTask

Spec == Init /\ [][Next]_vars

\* ------------------------------------------------------------------------
\* The timer alone: a plan of MaxTimerTasks one-minute tasks entered at
\* StartOfDay under one of the settings of InputSettings, then the Timer's
\* buttons, task selection, the 1 s interval and the display loop.
\* ------------------------------------------------------------------------
TimerInit ==
    /\ settings \in InputSettings
    /\ tickSettings = settings
    /\ activeTaskId = NoId
    /\ queueStartTime = StartOfDay
    /\ manualStartTime = NoAnchor
    /\ nextId = MaxTimerTasks
    /\ selectedDate = Today
    /\ taskStore = [d \in Days |-> <<>>]
    /\ displayTime = 0
    /\ rafFrames = <<>>
    /\ isAiLoading = FALSE
    /\ smartAddRender = NoRender
    /\ clock = StartOfDay
    /\ steps = 0
    /\ tasks = recalculateSchedule(
                   [i \in 1..MaxTimerTasks |-> NewTask(i, 1, NoAnchor)],
                   NoId, Undefined, NoId, StartOfDay, StartOfDay, Today, StartOfDay)
    /\ intervalTasks = tasks
    /\ pc = "timer"
    /\ argTasks = <<>>
    /\ argActiveTaskId = NoId
    /\ argCurrentTime = Undefined
    /\ argPlanStartTime = Undefined
    /\ argReferenceDate = Undefined
    /\ result = <<>>
    /\ resultAgain = <<>>
    /\ resultOfResult = <<>>

TimerNext ==
    \/ AdvanceClock
    \/ handleUpdateSettings
    \/ Tick
    \/ handleToggleTimer
    \/ handleSkipTimer
    \/ handleSelectTask
    \/ updateDisplay

SpecTimer == TimerInit /\ [][TimerNext]_vars

\* ------------------------------------------------------------------------
\* The AI add: the same plan of MaxTimerTasks one-minute tasks, then the "AI"
\* button, the answer of the request, and the handlers a user can reach
\* while the request is awaiting.
\* ------------------------------------------------------------------------
SmartAddInit ==
    /\ settings \in InputSettings
    /\ tickSettings = settings
    /\ activeTaskId = NoId
    /\ queueStartTime = StartOfDay
    /\ manualStartTime = NoAnchor
    /\ nextId = MaxTimerTasks
    /\ selectedDate = Today
    /\ taskStore = [d \in Days |-> <<>>]
    /\ displayTime = 0
    /\ rafFrames = <<>>
    /\ isAiLoading = FALSE
    /\ smartAddRender = NoRender
    /\ clock = StartOfDay
    /\ steps = 0
    /\ tasks = recalculateSchedule(
                   [i \in 1..MaxTimerTasks |-> NewTask(i, 1, NoAnchor)],
                   NoId, Undefined, NoId, StartOfDay, StartOfDay, Today, StartOfDay)
    /\ intervalTasks = tasks
    /\ pc = "smartadd"
    /\ argTasks = <<>>
    /\ argActiveTaskId = NoId
    /\ argCurrentTime = Undefined
    /\ argPlanStartTime = Undefined
    /\ argReferenceDate = Undefined
    /\ result = <<>>
    /\ resultAgain = <<>>
    /\ resultOfResult = <<>>

SmartAddNext ==
    \/ AdvanceClock
    \/ handleSmartAdd
    \/ handleSmartAddResumes
    \/ Tick
    \/ handleToggleTimer
    \/ handleSelectTask
    \/ handleTaskComplete
    \/ handleDeleteTask
    \/ handleUpdateTask

SpecSmartAdd == SmartAddInit /\ [][SmartAddNext]_vars

\* ------------------------------------------------------------------------
\* Reordering: a plan of MaxReorderTasks tasks entered at StartOfDay, of one
\* or fifteen minutes each and with the last one anchored or not, then drag
\* and drop, task selection, completion and the periodic refresh.
\* ------------------------------------------------------------------------
ReorderInit ==
    /\ settings = DEFAULT_SETTINGS
    /\ tickSettings = settings
    /\ activeTaskId = NoId
    /\ queueStartTime = StartOfDay
    /\ manualStartTime = NoAnchor
    /\ nextId = MaxReorderTasks
    /\ selectedDate = Today
    /\ taskStore = [d \in Days |-> <<>>]
    /\ displayTime = 0
    /\ rafFrames = <<>>
    /\ isAiLoading = FALSE
    /\ smartAddRender = NoRender
    /\ clock = StartOfDay
    /\ steps = 0
    /\ \E d \in [1..MaxReorderTasks -> {1, 15}], a \in InputAnchors \cup {NoAnchor} :
           tasks = recalculateSchedule(
                       [i \in 1..MaxReorderTasks |->
                           NewTask(i, d[i], IF i = MaxReorderTasks THEN a ELSE NoAnchor)],
                       NoId, Undefined, NoId, StartOfDay, StartOfDay, Today, StartOfDay)
    /\ intervalTasks = tasks
    /\ pc = "reorder"
    /\ argTasks = <<>>
    /\ argActiveTaskId = NoId
    /\ argCurrentTime = Undefined
    /\ argPlanStartTime = Undefined
    /\ argReferenceDate = Undefined
    /\ result = <<>>
    /\ resultAgain = <<>>
    /\ resultOfResult = <<>>

ReorderNext ==
    \/ AdvanceClock
    \/ ClockRefresh
    \/ handleSelectTask
    \/ handleTaskComplete
    \/ handleReorderTasks

SpecReorder == ReorderInit /\ [][ReorderNext]_vars

\* ------------------------------------------------------------------------
\* recalculateSchedule as a function: a driver that draws the arguments from
\* bounded sets, calls it, calls it on its own output, and calls it a second
\* time on the same arguments at a later reading of Date.now().
\* ------------------------------------------------------------------------
ArgDurations == {0, 1, 30, 45}
ArgAnchors == {NoAnchor, <<8, 1>>, <<8, 30>>, <<9, 0>>}
ArgPlanStartTimes == {Undefined, At(8, 0, 0), At(8, 0, 20), At(8, 1, 0), At(8, 2, 0)}
ArgCurrentTimes == {At(8, 0, 30), At(8, 2, 0), At(8, 46, 0)}
ArgReferenceDates == {Undefined, Today}

\* A pending task as the add form builds it, with the given id.
ArgTask(id, duration, anchoredStartTime) ==
    [id |-> id,
     startTime |-> 0,
     duration |-> duration,
     expectedPomodoros |-> Ceil(duration, DEFAULT_SETTINGS.pomodoroDuration
                                          + DEFAULT_SETTINGS.shortBreakDuration),
     completedPomodoros |-> 0,
     status |-> "pending",
     anchoredStartTime |-> anchoredStartTime,
     timer |-> [remainingSeconds |-> DEFAULT_SETTINGS.pomodoroDuration * SecPerMin,
                isRunning |-> FALSE,
                mode |-> "pomo",
                lastStartedAt |-> Undefined]]

ArgTaskLists ==
    UNION {{[i \in 1..n |-> ArgTask(i, d[i], a[i])] :
               d \in [1..n -> ArgDurations], a \in [1..n -> ArgAnchors]}
           : n \in 1..MaxLen}

RecalcInit ==
    /\ AppInit
    /\ steps = 0
    /\ clock = StartOfDay + ClockStep
    /\ pc = "init"
    /\ argTasks \in ArgTaskLists
    /\ argActiveTaskId \in 0..Len(argTasks)
    /\ argCurrentTime \in ArgCurrentTimes
    /\ argPlanStartTime \in ArgPlanStartTimes
    /\ argReferenceDate \in ArgReferenceDates
    /\ result = <<>>
    /\ resultAgain = <<>>
    /\ resultOfResult = <<>>

\* The call under test.
Recalculate(taskList) ==
    recalculateSchedule(taskList, NoId, Undefined, argActiveTaskId,
                        argCurrentTime, argPlanStartTime, argReferenceDate, clock)

CallRecalculate ==
    /\ pc = "init"
    /\ result' = Recalculate(argTasks)
    /\ pc' = "called"
    /\ UNCHANGED <<appVars, clock, steps, argTasks, argActiveTaskId, argCurrentTime,
                   argPlanStartTime, argReferenceDate, resultAgain, resultOfResult>>

\* The call on the output of the first call, same arguments, same clock.
CallOnResult ==
    /\ pc = "called"
    /\ resultOfResult' = Recalculate(result)
    /\ pc' = "reapplied"
    /\ UNCHANGED <<appVars, clock, steps, argTasks, argActiveTaskId, argCurrentTime,
                   argPlanStartTime, argReferenceDate, result, resultAgain>>

\* Time passes between two calls.
TimePasses ==
    /\ pc = "reapplied"
    /\ clock' = clock + ClockStep
    /\ pc' = "later"
    /\ UNCHANGED <<appVars, steps, argTasks, argActiveTaskId, argCurrentTime,
                   argPlanStartTime, argReferenceDate, result, resultAgain,
                   resultOfResult>>

\* The second call on the same arguments.
CallAgain ==
    /\ pc \in {"reapplied", "later"}
    /\ resultAgain' = Recalculate(argTasks)
    /\ pc' = "recalled"
    /\ UNCHANGED <<appVars, clock, steps, argTasks, argActiveTaskId, argCurrentTime,
                   argPlanStartTime, argReferenceDate, result, resultOfResult>>

RecalcNext ==
    \/ CallRecalculate
    \/ CallOnResult
    \/ TimePasses
    \/ CallAgain

SpecRecalc == RecalcInit /\ [][RecalcNext]_vars

\* ------------------------------------------------------------------------
\* Properties of recalculateSchedule (checked under SpecRecalc)
\* ------------------------------------------------------------------------
Called == pc # "init"

\* Task i of the call carries an anchor that the call resolves.
Anchored(i) == HasAnchor(argTasks[i], argReferenceDate)

AnchorOf(i) == AnchorTs(argTasks[i].anchoredStartTime, argReferenceDate)

\* Task k is the active task and the clock reading of the call is past its
\* end as the output states it.
ActiveOverrun(k) ==
    /\ argTasks[k].id = argActiveTaskId
    /\ argCurrentTime > result[k].startTime + result[k].duration * MsPerMin

\* The cursor that reaches task i (section 4.1): the plan start for the first
\* task, else the effective end of task i-1 with the duration it came in with.
CursorReaching(i) ==
    IF i = 1
    THEN IF Truthy(argPlanStartTime) THEN argPlanStartTime ELSE clock
    ELSE LET plannedEnd == result[i-1].startTime + argTasks[i-1].duration * MsPerMin
         IN IF argTasks[i-1].id = argActiveTaskId /\ argCurrentTime > plannedEnd
            THEN argCurrentTime
            ELSE plannedEnd

\* C4 as stated (P2, overrun push): whenever task k is the active task and
\* now > start[k] + duration[k]*60000, task k+1 starts at now exactly.
C4_OverrunPushAsStated ==
    Called =>
        \A k \in 1..(Len(argTasks) - 1) :
            ActiveOverrun(k) => result[k+1].startTime = argCurrentTime

\* C4 amended: whenever task k is the active task, now > start[k] +
\* duration[k]*60000 and task k+1 carries no anchor that the call resolves,
\* task k+1 starts at now exactly.
C4_OverrunPush ==
    Called =>
        \A k \in 1..(Len(argTasks) - 1) :
            (ActiveOverrun(k) /\ ~Anchored(k+1))
                => result[k+1].startTime = argCurrentTime

\* An overrunning active task is followed by an unanchored task.
C4_Witness ==
    /\ Called
    /\ \E k \in 1..(Len(argTasks) - 1) :
          /\ ActiveOverrun(k)
          /\ ~Anchored(k+1)
          /\ result[k].startTime + result[k].duration * MsPerMin < argCurrentTime
          /\ result[k+1].startTime = At(8, 46, 0)

\* C5 (idempotence): recalculate applied to its own output, with the same
\* activeTaskId, now, planStartTime and referenceDate, returns that output.
C5_Idempotent ==
    pc \in {"reapplied", "later", "recalled"} => resultOfResult = result

\* C6 (determinism, P3): two calls with identical arguments produce identical
\* output, whenever they are made.
C6_Deterministic ==
    pc = "recalled" => resultAgain = result

\* C7 as stated: the active task's duration in the output equals its duration
\* in the input, for every input.
C7_ActiveDurationKeptAsStated ==
    Called =>
        \A i \in 1..Len(argTasks) :
            argTasks[i].id = argActiveTaskId
                => result[i].duration = argTasks[i].duration

\* C7 amended: the active task's duration in the output equals its duration
\* in the input unless the task right after it is anchored and the cursor
\* reaching that task is past the anchor.
C7_ActiveDurationKept ==
    Called =>
        \A i \in 1..Len(argTasks) :
            (/\ argTasks[i].id = argActiveTaskId
             /\ ~(/\ i < Len(argTasks)
                  /\ Anchored(i+1)
                  /\ CursorReaching(i+1) > AnchorOf(i+1)))
                => result[i].duration = argTasks[i].duration

\* The active task overruns and is followed by an unanchored task, and a
\* later task is compressed by an anchor.
C7_Witness ==
    /\ Called
    /\ \E i \in 1..Len(argTasks) :
          /\ ActiveOverrun(i)
          /\ argTasks[i].duration = 1
          /\ result[i].duration = 1
          /\ result[i].startTime = At(8, 0, 20)
          /\ i < Len(argTasks)
          /\ Anchored(i+1)
          /\ CursorReaching(i+1) <= AnchorOf(i+1)

\* C8 (P1, linear chain): with no anchored task and no active task
\* overrunning, the first task starts at planStartTime, every next task starts
\* where the one before it ends, and no duration is changed.
C8_LinearChain ==
    (/\ Called
     /\ \A i \in 1..Len(argTasks) : argTasks[i].anchoredStartTime = NoAnchor
     /\ \A i \in 1..Len(argTasks) : ~ActiveOverrun(i))
        => /\ Truthy(argPlanStartTime) => result[1].startTime = argPlanStartTime
           /\ \A i \in 1..(Len(argTasks) - 1) :
                 result[i+1].startTime
                     = result[i].startTime + result[i].duration * MsPerMin
           /\ \A i \in 1..Len(argTasks) :
                 result[i].duration = argTasks[i].duration

\* Two unanchored tasks, the first one active and not overrunning, planned
\* from 08:00:20.
C8_Witness ==
    /\ Called
    /\ Len(argTasks) = 2
    /\ \A i \in 1..2 : argTasks[i].anchoredStartTime = NoAnchor
    /\ argActiveTaskId = 1
    /\ ~ActiveOverrun(1)
    /\ argPlanStartTime = At(8, 0, 20)
    /\ argTasks[1].duration = 30
    /\ result[1].startTime = At(8, 0, 20)
    /\ result[2].startTime = At(8, 30, 20)

\* C9 (P5, anchor compression): when task i > 0 is anchored at A, the cursor
\* reaching it is > A and the preceding task's duration exceeds
\* overrunMinutes = ceil((cursor - A)/60000), the preceding task's duration is
\* reduced by exactly overrunMinutes and task i starts at A exactly.
C9_AnchorCompression ==
    Called =>
        \A i \in 2..Len(argTasks) :
            (/\ Anchored(i)
             /\ CursorReaching(i) > AnchorOf(i)
             /\ argTasks[i-1].duration
                  > Ceil(CursorReaching(i) - AnchorOf(i), MsPerMin))
                => /\ result[i-1].duration
                        = argTasks[i-1].duration
                            - Ceil(CursorReaching(i) - AnchorOf(i), MsPerMin)
                   /\ result[i].startTime = AnchorOf(i)

\* Plan start 08:00, A 45 min, B anchored 08:30: A.duration = 30 and B starts
\* at 08:30.
C9_Witness ==
    /\ Called
    /\ Len(argTasks) = 2
    /\ argPlanStartTime = At(8, 0, 0)
    /\ argActiveTaskId = NoId
    /\ argTasks[1].duration = 45
    /\ argTasks[1].anchoredStartTime = NoAnchor
    /\ argTasks[2].anchoredStartTime = <<8, 30>>
    /\ argReferenceDate = Today
    /\ result[1].duration = 30
    /\ result[2].startTime = At(8, 30, 0)

\* C10 (P4, anchor with gap): when an anchored task is reached with cursor <=
\* A, it starts at A exactly and the task before it keeps its duration; when
\* every anchored task is reached so, no task's duration is changed; and the
\* output has as many tasks as the input (no idle task is inserted).
C10_AnchorWithGap ==
    Called =>
        /\ Len(result) = Len(argTasks)
        /\ \A i \in 1..Len(argTasks) :
              (Anchored(i) /\ CursorReaching(i) <= AnchorOf(i))
                  => /\ result[i].startTime = AnchorOf(i)
                     /\ i > 1 => result[i-1].duration = argTasks[i-1].duration
        /\ (\A i \in 1..Len(argTasks) :
                Anchored(i) => CursorReaching(i) <= AnchorOf(i))
              => \A j \in 1..Len(argTasks) :
                    result[j].duration = argTasks[j].duration

\* Plan start 08:00, A 30 min, B anchored 09:00: A.duration = 30 and B starts
\* at 09:00.
C10_Witness ==
    /\ Called
    /\ Len(argTasks) = 2
    /\ argPlanStartTime = At(8, 0, 0)
    /\ argActiveTaskId = NoId
    /\ argTasks[1].duration = 30
    /\ argTasks[1].anchoredStartTime = NoAnchor
    /\ argTasks[2].anchoredStartTime = <<9, 0>>
    /\ argReferenceDate = Today
    /\ result[1].duration = 30
    /\ result[2].startTime = At(9, 0, 0)
    /\ Len(result) = 2

\* ------------------------------------------------------------------------
\* Properties of the App (checked under Spec)
\* ------------------------------------------------------------------------

\* C1 (single running timer): in every reachable state at most one task has
\* timer.isRunning = TRUE.
C1_SingleRunningTimer ==
    Cardinality({i \in 1..Len(tasks) : tasks[i].timer.isRunning}) <= 1

\* C2: in every reachable state each task has timer.lastStartedAt defined if
\* and only if timer.isRunning is TRUE.
C2_LastStartedAtIffRunning ==
    \A i \in 1..Len(tasks) :
        (tasks[i].timer.lastStartedAt # Undefined) <=> tasks[i].timer.isRunning

\* C3: in every reachable state at most one task has status 'active', and a
\* task with status 'active' is the one the active-task pointer names.
C3_SingleActiveTask ==
    /\ Cardinality({i \in 1..Len(tasks) : tasks[i].status = "active"}) <= 1
    /\ \A i \in 1..Len(tasks) :
          tasks[i].status = "active" => tasks[i].id = activeTaskId

\* C11 (durations never negative): in every reachable state every task, of
\* the day shown and of the stored days, has duration >= 0; anchor
\* compression brings a duration to 0 at the lowest.
C11_DurationsNonNegative ==
    /\ \A i \in 1..Len(tasks) : tasks[i].duration >= 0
    /\ \A d \in Days : \A i \in 1..Len(taskStore[d]) : taskStore[d][i].duration >= 0

\* A task created with a positive duration (it has expected pomodoros) that
\* stands at 0 minutes in front of an anchored task placed on its anchor.
C11_Witness ==
    \E i \in 1..(Len(tasks) - 1) :
        /\ tasks[i].duration = 0
        /\ tasks[i].status # "completed"
        /\ tasks[i].expectedPomodoros > 0
        /\ tasks[i+1].anchoredStartTime # NoAnchor
        /\ tasks[i+1].startTime = AnchorTs(tasks[i+1].anchoredStartTime, selectedDate)

\* The task with the given id in a task list.
TaskById(taskList, id) == taskList[IndexOf(taskList, id)]

\* A step that completes the task with the given id: the task is in the list
\* before and after, not completed before and completed after.
Completes(id) ==
    /\ IndexOf(tasks, id) # 0
    /\ TaskById(tasks, id).status # "completed"
    /\ IndexOf(tasks', id) # 0
    /\ TaskById(tasks', id).status = "completed"

C13_CompletionSnap ==
    [][\A id \in 1..nextId :
          (Completes(id) /\ TaskById(tasks, id).startTime <= clock)
              => /\ TaskById(tasks', id).status = "completed"
                 /\ TaskById(tasks', id).duration
                      = Max(1, Ceil(clock - TaskById(tasks, id).startTime, MsPerMin))]_vars

\* C14 (rebase on the actual completion time): after a task that has started
\* (startTime <= now) is completed, the task right after it, when it carries
\* no anchor, starts exactly at now.
C14_RebasedOnActualEnd ==
    [][\A id \in 1..nextId :
          (/\ Completes(id)
           /\ TaskById(tasks, id).startTime <= clock
           /\ IndexOf(tasks, id) < Len(tasks)
           /\ Len(tasks') = Len(tasks)
           /\ tasks[IndexOf(tasks, id) + 1].anchoredStartTime = NoAnchor)
              => tasks'[IndexOf(tasks, id) + 1].startTime = clock]_vars

\* ------------------------------------------------------------------------
\* Properties of the timer (checked under SpecTimer)
\* ------------------------------------------------------------------------

\* What toggle(now) makes of the timer of its target task.
ToggleEffect(before, after) ==
    IF before.isRunning
    THEN /\ ~after.isRunning
         /\ after.lastStartedAt = Undefined
         /\ after.remainingSeconds
              = Max(0, before.remainingSeconds
                         - ((clock - before.lastStartedAt) \div MsPerSec))
         /\ after.mode = before.mode
    ELSE /\ after.isRunning
         /\ after.lastStartedAt = clock
         /\ after.remainingSeconds = before.remainingSeconds
         /\ after.mode = before.mode

\* C15 (toggle, P6): a toggle of a running timer pauses it with
\* remainingSeconds = max(0, remainingSeconds - (now - lastStartedAt)) and
\* lastStartedAt undefined; a toggle of a timer that is not running starts it
\* with lastStartedAt = now and remainingSeconds unchanged; remainingSeconds
\* is never negative.
C15_TogglePauseResume ==
    /\ [](\A i \in 1..Len(tasks) : tasks[i].timer.remainingSeconds >= 0)
    /\ [][handleToggleTimer
            => ToggleEffect(tasks[activeTask].timer, tasks'[activeTask].timer)]_vars

\* A first pomodoro paused after running for one ClockStep.
C15_Witness ==
    \E i \in 1..Len(tasks) :
        /\ ~tasks[i].timer.isRunning
        /\ tasks[i].timer.lastStartedAt = Undefined
        /\ tasks[i].timer.mode = "pomo"
        /\ tasks[i].completedPomodoros = 0
        /\ tasks[i].timer.remainingSeconds = SecPerMin - (ClockStep \div MsPerSec)

\* C16 (P7, cycle): counting from completedPomodoros = 0, the break entered
\* after the n-th finished pomodoro of a task is the long break iff n is a
\* multiple of 4 and the short break otherwise; a finish in a break mode
\* leads to pomo and leaves completedPomodoros as it is; skip always finishes
\* the interval.
C16_Cycle ==
    /\ [](\A i \in 1..Len(tasks) :
            tasks[i].timer.mode # "pomo"
                => /\ tasks[i].completedPomodoros >= 1
                   /\ tasks[i].timer.mode
                        = IF tasks[i].completedPomodoros % 4 = 0 THEN "long" ELSE "short")
    /\ [][\A i \in 1..Len(tasks) :
            IF tasks'[i].timer.mode # tasks[i].timer.mode
            THEN IF tasks[i].timer.mode = "pomo"
                 THEN /\ tasks'[i].completedPomodoros = tasks[i].completedPomodoros + 1
                      /\ tasks'[i].timer.mode \in {"short", "long"}
                 ELSE /\ tasks'[i].completedPomodoros = tasks[i].completedPomodoros
                      /\ tasks'[i].timer.mode = "pomo"
            ELSE tasks'[i].completedPomodoros = tasks[i].completedPomodoros]_vars
    /\ [][handleSkipTimer
            => tasks'[activeTask].timer.mode # tasks[activeTask].timer.mode]_vars

\* The fourth pomodoro of a task has been finished and its long break entered.
C16_Witness ==
    \E i \in 1..Len(tasks) :
        /\ tasks[i].completedPomodoros = 4
        /\ tasks[i].timer.mode = "long"

\* The configured length in seconds of an interval of the given mode.
ConfiguredSeconds(mode, s) ==
    IF mode = "pomo" THEN s.pomodoroDuration * SecPerMin
    ELSE IF mode = "long" THEN s.longBreakDuration * SecPerMin
    ELSE s.shortBreakDuration * SecPerMin

\* What finish(taskId, now, s) makes of the task list: the timer of the task
\* at index i is set up for the new mode and no other task is changed.
FinishEffect(i, s) ==
    LET before == tasks[i].timer
        after == tasks'[i].timer
    IN /\ Len(tasks') = Len(tasks)
       /\ after.remainingSeconds = ConfiguredSeconds(after.mode, s)
       /\ after.isRunning = IF before.mode = "pomo" THEN s.autoStartBreaks
                                                    ELSE s.autoStartPomodoros
       /\ after.lastStartedAt = IF after.isRunning THEN clock ELSE Undefined
       /\ \A j \in 1..Len(tasks) : j # i => tasks'[j] = tasks[j]

\* The task the 1 s interval finishes: the last expired one.
LastExpired == CHOOSE i \in ExpiredIndexes : \A j \in ExpiredIndexes : j <= i

\* C17 (finish): after finish(taskId, now, settings) the task's
\* remainingSeconds is the configured length of the new mode, isRunning is
\* autoStartBreaks after a pomodoro and autoStartPomodoros after a break,
\* lastStartedAt is now if running and undefined otherwise, and no other task
\* is changed.  The settings are those of the handleTimerFinish called: the
\* current ones for skip, the ones the interval callback closed over for the
\* 1 s tick.
C17_FinishContract ==
    /\ [][handleSkipTimer => FinishEffect(activeTask, settings)]_vars
    /\ [][(Tick /\ ExpiredIndexes # {}) => FinishEffect(LastExpired, tickSettings)]_vars

\* A first pomodoro was finished with autoStartBreaks set: the short break
\* is running from its full length.
C17_Witness ==
    \E i \in 1..Len(tasks) :
        /\ tasks[i].completedPomodoros = 1
        /\ tasks[i].timer.mode = "short"
        /\ tasks[i].timer.isRunning
        /\ tasks[i].timer.lastStartedAt = clock
        /\ tasks[i].timer.remainingSeconds = settings.shortBreakDuration * SecPerMin

\* C18 (skip): from every state (timer running or paused, any remaining
\* time, any mode) skip(taskId) leaves exactly the task sequence that
\* finish(taskId) gives at the same now under the same settings, and changes
\* nothing else of the App state.
C18_SkipIsFinish ==
    [][handleSkipTimer
        => /\ tasks' = handleTimerFinishTasks(tasks, activeTaskId, settings)
           /\ UNCHANGED <<activeTaskId, settings, queueStartTime, manualStartTime,
                          selectedDate, taskStore>>]_vars

\* A break that is running although no time has passed since the plan was
\* entered: the pomodoro before it was skipped, not run to its end.
C18_Witness ==
    \E i \in 1..Len(tasks) :
        /\ clock = StartOfDay
        /\ tasks[i].completedPomodoros >= 1
        /\ tasks[i].timer.mode # "pomo"
        /\ tasks[i].timer.isRunning

\* Task i is running and its time is up at the clock reading.
Expired(i) ==
    /\ tasks[i].timer.isRunning
    /\ tasks[i].timer.remainingSeconds
         - ((clock - tasks[i].timer.lastStartedAt) \div MsPerSec) <= 0

\* C19 (tick): a tick applies finish to a task iff the task's timer is
\* running and remainingSeconds - (now - lastStartedAt) <= 0, and a tick that
\* finds no such timer leaves the whole state unchanged.
C19_TickFinishesExpired ==
    /\ [][(Tick /\ \E i \in 1..Len(tasks) : Expired(i))
            => \A i \in 1..Len(tasks) :
                  IF Expired(i)
                  THEN tasks'[i] = FinishedTask(tasks[i], tasks[i].id, tickSettings)
                  ELSE tasks'[i] = tasks[i]]_vars
    /\ [][(Tick /\ ~\E i \in 1..Len(tasks) : Expired(i)) => UNCHANGED appVars]_vars

C21_NoLostOperation ==
    [][handleSmartAddResumes =>
          /\ Len(tasks') = Len(tasks) + (nextId' - nextId)
          /\ \A i \in 1..Len(tasks) :
                 /\ i <= Len(tasks')
                 /\ tasks'[i].id = tasks[i].id
                 /\ (tasks'[i].status = "completed") = (tasks[i].status = "completed")
                 /\ tasks'[i].timer = tasks[i].timer
                 /\ tasks'[i].completedPomodoros = tasks[i].completedPomodoros
                 /\ tasks'[i].anchoredStartTime = tasks[i].anchoredStartTime]_vars

\* ------------------------------------------------------------------------
\* Drift, frozen tasks and staleness of the schedule (checked under Spec)
\* ------------------------------------------------------------------------

\* The readings of Date.now() up to the present one.
PastReadings ==
    {StartOfDay + k * ClockStep : k \in 0..MaxClockSteps} \cap 0..clock

\* The committed tasks are what a recalculation pass at the reading `past`
\* leaves, under the present active id, plan start and day.
LeftByPassAt(past) ==
    /\ Len(tasks) > 0
    /\ tasks = recalculateSchedule(tasks, NoId, Undefined, activeTaskId, past,
                                   getEffectiveQueueStart, selectedDate, past)

\* The active task, if any, is not past its end at the reading now.
NotOverrunning(taskList, now) ==
    \A i \in 1..Len(taskList) :
        taskList[i].id = activeTaskId
            => now <= taskList[i].startTime + taskList[i].duration * MsPerMin

\* Two task lists agree on every startTime and duration.
SameTimes(before, after) ==
    /\ Len(after) = Len(before)
    /\ \A i \in 1..Len(before) :
           /\ after[i].startTime = before[i].startTime
           /\ after[i].duration = before[i].duration

\* C22: without an overrunning active task nothing drifts: when the tasks
\* are what a pass at an earlier clock reading left, and the periodic refresh
\* runs the next pass at a later reading with the task sequence, the anchors
\* and the plan start as they were (set or not), every startTime and
\* duration stays as it is.
C22_NoDriftWithoutOverrun ==
    [][(/\ ClockRefresh
        /\ \E past \in PastReadings : LeftByPassAt(past)
        /\ NotOverrunning(tasks, clock)
        /\ NotOverrunning(tasks', clock))
          => SameTimes(tasks, tasks')]_vars

\* The same statement for the refreshes that run while a plan start is set
\* (it holds: the drift needs the tracker's default Date.now()).
NoDriftWithPlanStart ==
    [][(/\ ClockRefresh
        /\ Truthy(getEffectiveQueueStart)
        /\ \E past \in PastReadings : LeftByPassAt(past)
        /\ NotOverrunning(tasks, clock)
        /\ NotOverrunning(tasks', clock))
          => SameTimes(tasks, tasks')]_vars

\* Task i of the committed list is completed, is still a completed task of
\* the list after the step, and its anchor was not edited by the step.
StaysCompleted(i) ==
    /\ tasks[i].status = "completed"
    /\ IndexOf(tasks', tasks[i].id) # 0
    /\ TaskById(tasks', tasks[i].id).status = "completed"
    /\ TaskById(tasks', tasks[i].id).anchoredStartTime = tasks[i].anchoredStartTime

\* C23: a completed task is frozen: the periodic refresh and the handlers
\* that mutate another task (update, remove, complete, add) leave the
\* startTime and the snapped duration of every task that was completed before
\* the step unchanged.
C23_CompletedFrozen ==
    [][(ClockRefresh \/ handleUpdateTask \/ handleDeleteTask
          \/ handleTaskComplete \/ handleAddTask)
          => \A i \in 1..Len(tasks) :
                StaysCompleted(i)
                  => LET j == IndexOf(tasks', tasks[i].id)
                     IN /\ tasks'[j].startTime = tasks[i].startTime
                        /\ tasks'[j].duration = tasks[i].duration]_vars

\* The list committed by the step is the pass over the given mutated list
\* under the active id, clock reading, plan start and day that hold after
\* the step.
FreshFor(mutated) ==
    tasks' = recalculateSchedule(mutated, NoId, Undefined, activeTaskId', clock',
                                 getEffectiveQueueStart', selectedDate', clock')

\* The step keeps the tasks and their order.
SameOrder ==
    /\ Len(tasks') = Len(tasks)
    /\ \A i \in 1..Len(tasks) : tasks'[i].id = tasks[i].id

\* The steps of the five mutations, told apart by what they change.  Only
\* handleAddTask hands out an id, only handleReorderTasks changes the order
\* of the day shown, only handleTaskComplete changes whether a task is
\* completed; a remove shortens the list and an update changes neither a
\* status nor a timer, and these two are matched against their handlers (the
\* update where the statement is made).
AddStep == nextId' = nextId + 1

RemoveStep ==
    /\ Len(tasks') = Len(tasks) - 1
    /\ selectedDate' = selectedDate
    /\ handleDeleteTask

ReorderStep ==
    /\ Len(tasks') = Len(tasks)
    /\ selectedDate' = selectedDate
    /\ ~SameOrder

UpdateStep ==
    /\ steps' = steps + 1
    /\ settings' = settings
    /\ manualStartTime' = manualStartTime
    /\ activeTaskId' = activeTaskId
    /\ SameOrder
    /\ \A i \in 1..Len(tasks) : /\ tasks'[i].status = tasks[i].status
                                 /\ tasks'[i].timer = tasks[i].timer

CompleteStep ==
    /\ SameOrder
    /\ \E i \in 1..Len(tasks) :
           (tasks'[i].status = "completed") # (tasks[i].status = "completed")

\* C24: the schedule is never stale: the list that add, remove, reorder,
\* update and complete commit is the recalculation of the mutated list (the
\* list with the task inserted, removed, moved, edited or marked) under the
\* active id, clock reading, plan start and day of the state they leave.
C24_NeverStale ==
    [][/\ AddStep =>
            \E duration \in InputDurations,
               anchoredStartTime \in InputAnchors \cup {NoAnchor},
               insertionIndex \in 0..Len(tasks) :
                FreshFor(InsertAt(tasks, insertionIndex,
                             NewTask(nextId + 1, AddDuration(duration),
                                     anchoredStartTime)))
       /\ RemoveStep =>
            \E i \in 1..Len(tasks) : FreshFor(RemoveAt(tasks, i - 1))
       /\ ReorderStep =>
            \E fromIndex, toIndex \in 0..(Len(tasks) - 1) :
                FreshFor(Reordered(tasks, fromIndex, toIndex))
       /\ UpdateStep =>
            \/ \E i \in 1..Len(tasks), updates \in InputUpdates :
                  FreshFor([j \in 1..Len(tasks) |->
                              UpdatedTask(tasks[j], tasks[i].id,
                                 [f \in DOMAIN updates \ {"title"} |-> updates[f]])])
            \/ ~handleUpdateTask
       /\ CompleteStep =>
            \E i \in 1..Len(tasks) :
                FreshFor([j \in 1..Len(tasks) |->
                            CompletedTask(tasks[j], tasks[i].id,
                               IF tasks[i].status = "completed"
                               THEN "pending" ELSE "completed",
                               SnappedDuration(tasks[i], clock,
                                   tasks[i].status = "completed"))])]_vars

\* A completion has pulled the task behind it forward: the first task is
\* completed with the duration snapped to a minute and the second, entered
\* behind a longer first task, starts at its end.
C24_Witness ==
    /\ Len(tasks) = 2
    /\ tasks[1].status = "completed"
    /\ tasks[1].duration = 1
    /\ tasks[1].expectedPomodoros = 1
    /\ tasks[1].startTime + 15 * MsPerMin > tasks[2].startTime
    /\ tasks[2].startTime = tasks[1].startTime + MsPerMin
    /\ activeTaskId = NoId
    /\ steps > 0

\* ------------------------------------------------------------------------
\* update, un-complete and reorder (checked under Spec)
\* ------------------------------------------------------------------------

\* The step is handleUpdateTask called for task i with the given updates.
UpdateOf(i, updates) ==
    /\ steps' = steps + 1
    /\ SameOrder
    /\ ("duration" \in DOMAIN updates) => tasks[i].status # "completed"
    /\ tasks' = updateSchedule(
                   [j \in 1..Len(tasks) |->
                      UpdatedTask(tasks[j], tasks[i].id,
                         [f \in DOMAIN updates \ {"title"} |-> updates[f]])],
                   NoId, Undefined, getEffectiveQueueStart, activeTaskId)
    /\ handleUpdateTask

\* C25: update(id, {duration: d}) leaves expectedPomodoros = ceil(d /
\* cycleLength) for every d >= 0, d = 0 included, with cycleLength =
\* pomodoroDuration + shortBreakDuration; an update without a duration
\* leaves expectedPomodoros as it was.
C25_ExpectedPomodoros ==
    [][\A i \in 1..Len(tasks), updates \in InputUpdates :
          UpdateOf(i, updates)
            => tasks'[i].expectedPomodoros =
                 IF "duration" \in DOMAIN updates
                 THEN Ceil(updates.duration,
                           settings.pomodoroDuration + settings.shortBreakDuration)
                 ELSE tasks[i].expectedPomodoros]_vars

\* The step toggles the completed task i back: it is completed before and not
\* completed after.
Uncompletes(i) ==
    /\ SameOrder
    /\ tasks[i].status = "completed"
    /\ tasks'[i].status # "completed"

\* C26: toggling a completed task back to pending changes only its status:
\* the task is pending, its duration is the one snapped at completion, its
\* timer, pomodoro counts and anchor are as they were, and the active
\* pointer is unchanged.
C26_UncompleteStatusOnly ==
    [][\A i \in 1..Len(tasks) :
          Uncompletes(i)
            => /\ tasks'[i].status = "pending"
               /\ tasks'[i].duration = tasks[i].duration
               /\ tasks'[i].timer = tasks[i].timer
               /\ tasks'[i].completedPomodoros = tasks[i].completedPomodoros
               /\ tasks'[i].expectedPomodoros = tasks[i].expectedPomodoros
               /\ tasks'[i].anchoredStartTime = tasks[i].anchoredStartTime
               /\ activeTaskId' = activeTaskId]_vars

\* The step is handleReorderTasks called with the given two indices.
ReorderOf(fromIndex, toIndex) ==
    /\ fromIndex # toIndex
    /\ steps' = steps + 1
    /\ ~SameOrder
    /\ tasks' = updateSchedule(Reordered(tasks, fromIndex, toIndex), NoId,
                               Undefined, getEffectiveQueueStart, activeTaskId)
    /\ handleReorderTasks

\* The ids of a task list without the given id, in order.
IdsWithout(taskList, id) ==
    LET others == SelectSeq(taskList, LAMBDA t : t.id # id)
    IN [k \in 1..Len(others) |-> others[k].id]

\* A task apart from the two fields the pass assigns.
Unscheduled(t) == [t EXCEPT !.startTime = 0, !.duration = 0]

\* C27: reorder(fromIndex, toIndex) with two in-range indices leaves a
\* permutation of the same tasks in which the moved task is at index toIndex
\* and the other tasks are in the order they had; with equal indices the
\* handler returns at once (the UNCHANGED branch of handleReorderTasks).
C27_ReorderMoves ==
    [][\A fromIndex, toIndex \in 0..(Len(tasks) - 1) :
          ReorderOf(fromIndex, toIndex)
            => LET moved == tasks[fromIndex + 1].id
               IN /\ Len(tasks') = Len(tasks)
                  /\ tasks'[toIndex + 1].id = moved
                  /\ IdsWithout(tasks', moved) = IdsWithout(tasks, moved)
                  /\ \A i \in 1..Len(tasks) :
                         Unscheduled(TaskById(tasks', tasks[i].id))
                            = Unscheduled(tasks[i])]_vars

\* The first task of the plan has been dragged behind the two others after a
\* task was completed: the plan reads 2, 3, 1.
C27_Witness ==
    /\ pc = "reorder"
    /\ Len(tasks) = MaxReorderTasks
    /\ tasks[1].id = 2 /\ tasks[2].id = 3 /\ tasks[3].id = 1
    /\ \E i \in 1..Len(tasks) : tasks[i].status = "completed"
    /\ steps = 2

\* ------------------------------------------------------------------------
\* Anchors that cannot be met and the anchor of the first task (checked
\* under SpecRecalc)
\* ------------------------------------------------------------------------

\* C28: an anchor that cannot be met is a soft constraint: when task i > 0 is
\* anchored at A, the cursor reaching it is > A and the preceding task's
\* duration d is <= ceil((cursor - A)/60000), the call leaves the preceding
\* task with duration 0, starts task i at max(A, cursor - d*60000), and
\* returns a list with every task of the input, in order.
C28_SoftAnchor ==
    Called =>
        /\ Len(result) = Len(argTasks)
        /\ \A k \in 1..Len(argTasks) : result[k].id = argTasks[k].id
        /\ \A i \in 2..Len(argTasks) :
              (/\ Anchored(i)
               /\ CursorReaching(i) > AnchorOf(i)
               /\ argTasks[i-1].duration
                    <= Ceil(CursorReaching(i) - AnchorOf(i), MsPerMin))
                  => /\ result[i-1].duration = 0
                     /\ result[i].startTime
                          = Max(AnchorOf(i),
                                CursorReaching(i) - argTasks[i-1].duration * MsPerMin)

\* A (1 min) is active and still running at 08:46; B is anchored at 08:30: A
\* is left with duration 0 and B starts at 08:45, a minute before the cursor.
C28_Witness ==
    /\ Called
    /\ Len(argTasks) = 2
    /\ argActiveTaskId = argTasks[1].id
    /\ argCurrentTime = At(8, 46, 0)
    /\ argTasks[1].duration = 1
    /\ argTasks[2].anchoredStartTime = <<8, 30>>
    /\ argReferenceDate = Today
    /\ argPlanStartTime = At(8, 0, 0)
    /\ result[1].duration = 0
    /\ result[2].startTime = At(8, 45, 0)

C30_ActivePointerAtCompletion ==
    [][\A i \in 1..Len(tasks) :
          /\ (SameOrder /\ Completes(tasks[i].id))
                => activeTaskId' = IF tasks[i].id = activeTaskId
                                   THEN NoId ELSE activeTaskId
          /\ Uncompletes(i) => activeTaskId' = activeTaskId]_vars

\* The active task was completed after its timer had been started: a
\* completed task carries a start stamp and no task is active.
C30_Witness ==
    /\ pc = "idle"
    /\ activeTaskId = NoId
    /\ \E i \in 1..Len(tasks) :
           /\ tasks[i].status = "completed"
           /\ Truthy(tasks[i].timer.lastStartedAt)
           /\ ~tasks[i].timer.isRunning
    /\ steps = 3

\* ------------------------------------------------------------------------
\* Switching the active task (checked under SpecTimer)
\* ------------------------------------------------------------------------

\* C31: a finish pending for the task that select switched away from is
\* discarded.  A timer of a task that is not active was started while the
\* task was active (toggle and skip act on the active task only) or by a
\* finish applied to it after the switch, so the statement is: the task the
\* 1 s tick finishes is the active task.
C31_PendingFinishDiscarded ==
    [][(Tick /\ ExpiredIndexes # {}) => tasks[LastExpired].id = activeTaskId]_vars

\* The active task's timer is running with a start stamp.
ActiveTimerRunning ==
    /\ activeTask # 0
    /\ tasks[activeTask].timer.isRunning
    /\ Truthy(tasks[activeTask].timer.lastStartedAt)

\* C32: at most one display sampler loop is live and it reads the current
\* active task's timer: at most one animation frame is requested at any
\* time, its updateDisplay closed over the timer the active task has now and
\* rafRef holds its handle, and no frame is requested unless the active
\* task's timer is running.
C32_OneSamplerLoop ==
    /\ Len(rafFrames) <= 1
    /\ \A k \in 1..Len(rafFrames) :
          /\ ActiveTimerRunning
          /\ rafFrames[k].timer = tasks[activeTask].timer
          /\ rafFrames[k].inRef
    /\ ~ActiveTimerRunning => rafFrames = <<>>

\* The second task's timer was started while the first task's was running:
\* the one frame requested belongs to the second task, the active one, and
\* the first task has been paused part-way by that start.
C32_Witness ==
    /\ pc = "timer"
    /\ Len(tasks) = 2
    /\ activeTaskId = tasks[2].id
    /\ tasks[2].timer.isRunning
    /\ ~tasks[1].timer.isRunning
    /\ tasks[1].timer.mode = "pomo"
    /\ tasks[1].timer.remainingSeconds < settings.pomodoroDuration * SecPerMin
    /\ Len(rafFrames) = 1
    /\ rafFrames[1].timer = tasks[2].timer

OneFinish(i) ==
    /\ tasks'[i].timer.mode = NextMode(tasks[i].timer.mode, tasks'[i].completedPomodoros)
    /\ tasks'[i].completedPomodoros
         = tasks[i].completedPomodoros + (IF tasks[i].timer.mode = "pomo" THEN 1 ELSE 0)

C35_NeverBeforeAnchor ==
    Called =>
        \A i \in 1..Len(argTasks) :
            Anchored(i) =>
                /\ result[i].startTime >= AnchorOf(i)
                /\ (\/ CursorReaching(i) <= AnchorOf(i)
                    \/ /\ i > 1
                       /\ argTasks[i-1].duration
                            > Ceil(CursorReaching(i) - AnchorOf(i), MsPerMin))
                      => result[i].startTime = AnchorOf(i)

\* The cursor reaches an anchored second task 20 s late and the first task
\* is too short to absorb the overrun: moving back by its duration would pass
\* the anchor, and the task starts on the anchor.
C35_Witness ==
    /\ Called
    /\ Len(argTasks) = 2
    /\ Anchored(2)
    /\ CursorReaching(2) > AnchorOf(2)
    /\ argTasks[1].duration > 0
    /\ CursorReaching(2) - argTasks[1].duration * MsPerMin < AnchorOf(2)
    /\ argTasks[1].duration <= Ceil(CursorReaching(2) - AnchorOf(2), MsPerMin)
    /\ result[2].startTime = AnchorOf(2)

\* C36 (no overlap): in every output of a call over non-negative durations,
\* a task starts no earlier than the end of the task before it, computed from
\* the output's startTime and duration; so startTimes never decrease along
\* the list.
C36_NoOverlap ==
    Called =>
        \A i \in 1..(Len(result) - 1) :
            /\ result[i+1].startTime
                 >= result[i].startTime + result[i].duration * MsPerMin
            /\ result[i+1].startTime >= result[i].startTime

\* The first task was squashed to 0 before an anchored task that starts
\* inside the span the first task had on input.
C36_Witness ==
    /\ Called
    /\ Len(argTasks) = 2
    /\ Anchored(2)
    /\ argTasks[1].duration > 0
    /\ result[1].duration = 0
    /\ result[2].startTime
         < result[1].startTime + argTasks[1].duration * MsPerMin
    /\ result[2].startTime >= result[1].startTime

\* C37: the active pointer, when set, names a task of the current list; in
\* particular it is unset after the active task is removed, after
\* clear-completed and after delete-all.
C37_ActivePresent ==
    activeTaskId # NoId => IndexOf(tasks, activeTaskId) # 0

\* A task apart from its status.
StatusBlind(t) == [t EXCEPT !.status = "pending"]

\* C38 as stated: select(id) changes nothing but the active pointer and the
\* status of the selected task.
C38_SelectChangesOnlyPointerAndStatus ==
    [][handleSelectTask
         => /\ Len(tasks') = Len(tasks)
            /\ \A j \in 1..Len(tasks) :
                  /\ StatusBlind(tasks'[j]) = StatusBlind(tasks[j])
                  /\ tasks[j].id # activeTaskId' => tasks'[j].status = tasks[j].status
                  /\ tasks[j].id = activeTaskId' => tasks'[j].status = "active"]_vars

\* C38 amended: select(id) sets the active pointer and marks the selected
\* task active; it leaves every task's timer, pomodoro counts, anchor and id,
\* the order and the other tasks' statuses unchanged, while startTime and
\* duration are derived again by the schedule pass that follows a change of
\* the pointer.  A timer running on the previously active task therefore
\* keeps running, and the 1 s tick finishes the last expired running timer
\* whether or not its task is the active one.
C38_SelectKeepsTimers ==
    /\ [][handleSelectTask
            => /\ Len(tasks') = Len(tasks)
               /\ \A j \in 1..Len(tasks) :
                     /\ tasks'[j].timer = tasks[j].timer
                     /\ StatusBlind(Unscheduled(tasks'[j])) = StatusBlind(Unscheduled(tasks[j]))
                     /\ tasks[j].id # activeTaskId' => tasks'[j].status = tasks[j].status
                     /\ tasks[j].id = activeTaskId' => tasks'[j].status = "active"
               /\ UNCHANGED <<settings, queueStartTime, manualStartTime, viewVars>>]_vars
    /\ [][(Tick /\ ExpiredIndexes # {} /\ tasks[LastExpired].id # activeTaskId)
            => tasks'[LastExpired]
                 = FinishedTask(tasks[LastExpired], tasks[LastExpired].id, tickSettings)]_vars

\* The timer started on the first task is still running, and due, after the
\* second task was selected and while the second task's own timer is stopped.
C38_Witness ==
    /\ pc = "timer"
    /\ Len(tasks) = 2
    /\ activeTaskId = tasks[2].id
    /\ tasks[2].status = "active"
    /\ ~tasks[2].timer.isRunning
    /\ tasks[1].timer.isRunning
    /\ tasks[1].timer.mode = "pomo"
    /\ tasks[1].completedPomodoros = 0
    /\ ExpiredIndexes = {1}

====
